---- MODULE Spec2Model ----
(***************************************************************************)
(* A model of bl/queue.py: the directory-backed work queue.                *)
(*                                                                         *)
(* State: the two directories of one Queue (self.path, self.outpath), the  *)
(* wall clock read by insert, and one listen() loop per worker process.    *)
(* Each worker is a separate OS process, so the steps of process_queue     *)
(* that touch the filesystem (list, rename, the entry handler) interleave  *)
(* with the other workers' steps and with inserts.                         *)
(*                                                                         *)
(* Two names of queue.py are free: `outpath` (line 70) and `exception`     *)
(* (lines 79, 80, 88).  No line of the module binds them, so what they     *)
(* evaluate to is decided by the namespace the class runs in.  Line 88     *)
(* evaluates `exception` while the class body is executed, so a Queue      *)
(* exists only in a namespace that binds `exception`; `outpath` is looked  *)
(* up at every claim and raises NameError where it is unbound, which is    *)
(* the case in the module's own namespace.  The namespace is the variable  *)
(* ns; it is fixed by Init and read by Lookup.                             *)
(***************************************************************************)
EXTENDS Naturals, Sequences, FiniteSets, TLC

\* ------------------------------------------------------------------ bounds
MaxInserts == 2
MaxClock == 1
MaxUsec == 1

\* the worker processes that run listen() on the same pair of directories
Workers == { 1, 2 }
\* the values random.random() takes, as "%.5f" shows them
Draws == { 0, 1 }
Ids == 1..MaxInserts

\* ------------------------------------------------------------- the strings
\* A string is a sequence of code points, compared as Python compares str.
Digit(d) == 48 + d
DOT == 46
DASH == 45
PERCENT == 37
STAR == 42

RECURSIVE StrLess(_, _)
StrLess(a, b) ==
    IF b = <<>> THEN FALSE
    ELSE IF a = <<>> THEN TRUE
    ELSE IF a[1] # b[1] THEN a[1] < b[1]
    ELSE StrLess(Tail(a), Tail(b))

\* time.strftime("%Y%m%d.%H%M%S.%f") at second t of the wall clock: the date
\* and time fields are zero padded to a fixed width and hold whole seconds
\* (here: the seconds elapsed, two digits).  time.strftime has no %f directive,
\* so ".%f" is copied as it is.
strftime(t) == << Digit((t \div 10) % 10), Digit(t % 10), DOT, PERCENT, 102 >>

\* "%.5f" % random.random(): a fixed-width decimal fraction (here one digit).
FormatRandom(x) == << Digit(0), DOT, Digit(x % 10) >>

DefaultPrefix == <<>>
DefaultSuffix == <<>>
DefaultExt == << DOT, 106, 115, 111, 110 >>

\* queue.py:44-45: "%s%s-%.5f%s%s" % (prefix, strftime, random, suffix, ext)
EntryName(prefix, t, x, suffix, ext) ==
    prefix \o strftime(t) \o <<DASH>> \o FormatRandom(x) \o suffix \o ext

\* --------------------------------------------------------------- the paths
PATH == "q"
OUTPATH == "q.OUT"
Dirs == { PATH, OUTPATH }

Join(dir, base) == [dir |-> dir, base |-> base]
Basename(p) == p.base
NoPath == Join("", <<>>)

Unbound == "<unbound>"
Payloads == { "hello" }

VARIABLES
    ns,       \* the bindings of the free names `outpath` and `exception`
    active,   \* the worker processes that were started
    clock,    \* the wall clock, in seconds
    fs,       \* fs[dir]: the files of the directory, base name -> file
    nextId,   \* inserts made so far + 1; a file carries the number of its insert
    pc, fns, idx, newfn,   \* one listen() loop per worker and its locals
    err,      \* the exception that left process_queue, per worker
    ev,       \* per worker: the log lines and calls of its current turn of the loop
    snap,     \* per worker: the pending directory as its last list() saw it
    cur,      \* per worker: the insert number of the file its last rename moved
    handled,  \* per insert: how many times process_entry was called for it
    moved,    \* per insert: how many times a rename moved it out of self.path
    faulted,  \* per worker: os.rename met an I/O fault in its current sweep
    self,     \* the attributes of the Queue object: self.path, self.outpath
    ret       \* the latest call of insert or list: its arguments and its outcome

vars == << ns, active, clock, fs, nextId, pc, fns, idx, newfn, err, ev,
           snap, cur, handled, moved, faulted, self, ret >>

\* ----------------------------------------------------------- the namespace
\* issubclass(k, c) for the exception classes of the model: Exception, which is
\* the base of the others, KeyError and ValueError.
IsSubclass(k, c) == c = "Exception" \/ k = c

Lookup(name) == ns[name]

Namespaces ==
    [ outpath : { Unbound, OUTPATH }, exception : { "Exception", "ValueError" } ]

\* ---------------------------------------------------------- the filesystem
Exists(p) == p.base \in DOMAIN fs[p.dir]
Content(p) == fs[p.dir][p.base]

Remove(dir, base) == [n \in (DOMAIN dir) \ {base} |-> dir[n]]
Put(dir, base, file) == [n \in (DOMAIN dir) \cup {base} |-> IF n = base THEN file ELSE dir[n]]

\* A copy in place of the move: the source stays where it was.
RenameKeepsSource(src, dst) ==
    [fs EXCEPT ![dst.dir] = Put(fs[dst.dir], dst.base, fs[src.dir][src.base])]

\* os.rename(src, dst) on an existing src: one atomic step that takes the file
\* away from src and makes it dst, replacing a file that is already there (as
\* POSIX does; where the system refuses instead, that is an I/O fault of
\* TryClaim).
Rename(src, dst) ==
    LET file == Content(src)
        gone == [fs EXCEPT ![src.dir] = Remove(fs[src.dir], src.base)]
    IN  [gone EXCEPT ![dst.dir] = Put(gone[dst.dir], dst.base, file)]

\* ------------------------------------------------------------------- list
\* fnmatch: `*` of the pattern stands for any run of characters, every other
\* character for itself.
RECURSIVE FnMatch(_, _)
FnMatch(pat, name) ==
    IF pat = <<>> THEN name = <<>>
    ELSE IF pat[1] = STAR
    THEN FnMatch(Tail(pat), name) \/ (name # <<>> /\ FnMatch(pat, Tail(name)))
    ELSE name # <<>> /\ name[1] = pat[1] /\ FnMatch(Tail(pat), Tail(name))

IsHidden(name) == name # <<>> /\ name[1] = DOT

\* glob(os.path.join(dir, pattern)): the names of the directory that match the
\* pattern; a name that starts with a dot is left out unless the pattern
\* starts with a dot itself.
GlobPattern(dir, pattern) ==
    { Join(dir, n) : n \in { m \in DOMAIN fs[dir] :
                               (IsHidden(pattern) \/ ~IsHidden(m)) /\ FnMatch(pattern, m) } }

\* glob(os.path.join(self.path, "*")): every name of the directory that does
\* not start with a dot.
Glob(dir) == GlobPattern(dir, <<STAR>>)

\* os.path.isdir(fn): a subdirectory is an entry whose content is SubDir.
SubDir == "<directory>"
IsDir(p) == Content(p).text = SubDir

PathLess(p, q) == StrLess(p.base, q.base)

RECURSIVE Sorted(_)
Sorted(S) ==
    IF S = {} THEN <<>>
    ELSE LET least == CHOOSE p \in S : \A q \in S \ {p} : PathLess(p, q)
         IN  <<least>> \o Sorted(S \ {least})

\* queue.py:50-56, list(pattern)
listPattern(pattern) == Sorted({ p \in GlobPattern(PATH, pattern) : ~IsDir(p) })

\* list(), as process_queue calls it: the pattern is "*"
list == Sorted({ p \in Glob(PATH) : ~IsDir(p) })

\* ---------------------------------------------------------------- __init__
None == "<None>"
NoQueue == [path |-> None, outpath |-> None]
NoCall == [call |-> "none"]

\* queue.py:21: path + '.OUT'
DefaultOutpath(path) == IF path = PATH THEN OUTPATH ELSE None

\* The directory is made anew, whether it is there or not.
MakeDirsAnew(f, d) == [x \in (DOMAIN f) \cup {d} |-> IF x = d THEN <<>> ELSE f[x]]

\* queue.py:19-20 and 22-23: if not os.path.exists(d): os.makedirs(d)
EnsureDir(f, d) ==
    IF d \in DOMAIN f THEN f
    ELSE [x \in (DOMAIN f) \cup {d} |-> IF x = d THEN <<>> ELSE f[x]]

\* Dict.__init__(self, path=path, outpath=outpath, ...) of bl/dict.py, which is
\* not among the sources: the attribute container of the specification (6),
\* which keeps the keyword arguments as the attributes of the object.
DictInit(path, outpath) == [path |-> path, outpath |-> outpath]

\* queue.py:18-23, Queue(path, outpath=None): the two directories are made
\* where they are missing and the object takes path and outpath as attributes.
Queue(path, outpath) ==
    LET out == IF outpath = None THEN DefaultOutpath(path) ELSE outpath
    IN  /\ self = NoQueue
        /\ fs' = EnsureDir(EnsureDir(fs, path), out)
        /\ self' = DictInit(path, out)
        /\ UNCHANGED << ret, ns, active, clock, nextId, pc, fns, idx, newfn, err, ev,
                        snap, cur, handled, moved, faulted >>

\* -------------------------------------------------------------------- Init
\* The state after Queue(PATH) where neither directory was there, with the
\* workers' loops not yet started.
Init ==
    /\ self = DictInit(PATH, DefaultOutpath(PATH))
    /\ ret = NoCall
    /\ ns \in Namespaces
    /\ active \in { {1}, Workers }
    /\ clock = 0
    /\ fs = [d \in Dirs |-> <<>>]
    /\ nextId = 1
    /\ pc = [w \in Workers |-> "idle"]
    /\ fns = [w \in Workers |-> <<>>]
    /\ idx = [w \in Workers |-> 1]
    /\ newfn = [w \in Workers |-> NoPath]
    /\ err = [w \in Workers |-> "none"]
    /\ ev = [w \in Workers |-> <<>>]
    /\ snap = [w \in Workers |-> <<>>]
    /\ cur = [w \in Workers |-> 0]
    /\ handled = [i \in Ids |-> 0]
    /\ moved = [i \in Ids |-> 0]
    /\ faulted = [w \in Workers |-> FALSE]

WorkerVars == << active, pc, fns, idx, newfn, err, ev, snap, cur, handled, moved, faulted >>

\* The wall clock advances.
Tick ==
    /\ clock < MaxClock
    /\ clock' = clock + 1
    /\ UNCHANGED << self, ret, ns, fs, nextId, WorkerVars >>

\* ------------------------------------------------------------------ insert
\* The file is opened for writing whether it is there or not.
TextWriteOverwrites(qfn, file) ==
    [raised |-> "none", fs |-> [fs EXCEPT ![qfn.dir] = Put(fs[qfn.dir], qfn.base, file)]]

\* Text(fn=qfn, text=text).write() of bl/text.py, which is not among the
\* sources: taken from the insertion contract of the specification (4.5, 7).
\* It creates the file qfn holding text; when qfn is there already it raises
\* InsertionCollisionError and writes nothing.
TextWrite(qfn, file) ==
    IF Exists(qfn)
    THEN [raised |-> "InsertionCollisionError", fs |-> fs]
    ELSE [raised |-> "none", fs |-> [fs EXCEPT ![qfn.dir] = Put(fs[qfn.dir], qfn.base, file)]]

\* The name is built in the claimed directory instead of self.path.
insertIntoOutpath(text, prefix, suffix, ext, x) ==
    LET qfn == Join(OUTPATH, EntryName(prefix, clock, x, suffix, ext))
        out == TextWrite(qfn, [id |-> nextId, text |-> text])
    IN  /\ nextId <= MaxInserts
        /\ fs' = out.fs
        /\ ret' = [call |-> "insert", text |-> text, qfn |-> qfn, raised |-> out.raised]
        /\ nextId' = nextId + 1
        /\ UNCHANGED << self, ns, clock, WorkerVars >>

\* queue.py:37-48
insert(text, prefix, suffix, ext, x) ==
    LET qfn == Join(PATH, EntryName(prefix, clock, x, suffix, ext))
        out == TextWrite(qfn, [id |-> nextId, text |-> text])
    IN  /\ nextId <= MaxInserts
        /\ fs' = out.fs
        /\ ret' = [call |-> "insert", text |-> text, qfn |-> qfn, raised |-> out.raised]
        /\ nextId' = nextId + 1
        /\ UNCHANGED << self, ns, clock, WorkerVars >>

Insert ==
    \E text \in Payloads, x \in Draws :
        insert(text, DefaultPrefix, DefaultSuffix, DefaultExt, x)

\* ----------------------------------------------------- the events of a sweep
NoExc == [cls |-> "none", inst |-> FALSE]
Event(k, fn, to, res, exc, id) ==
    [k |-> k, fn |-> fn, to |-> to, res |-> res, exc |-> exc, id |-> id]

\* ------------------------------------------------------------ process_queue
\* queue.py:31-35 and 64: listen calls process_queue, which takes its listing.
ListStep(w) ==
    /\ w \in active
    /\ pc[w] = "idle"
    /\ fns' = [fns EXCEPT ![w] = list]
    /\ idx' = [idx EXCEPT ![w] = 1]
    /\ pc' = [pc EXCEPT ![w] = "loop"]
    /\ snap' = [snap EXCEPT ![w] = fs[PATH]]
    /\ UNCHANGED << self, ret, ns, active, clock, fs, nextId, newfn, err, ev, cur, handled, moved, faulted >>

\* queue.py:69-71, the try block: what it raises, or "none" when the rename is
\* done.  ioFault: the operating system refuses the rename of an existing file
\* (permission denied, disk full, ...).
TryClaim(fn, ioFault) ==
    IF Lookup("outpath") = Unbound THEN "NameError"
    ELSE IF ~Exists(fn) THEN "FileNotFoundError"
    ELSE IF ioFault THEN "PermissionError"
    ELSE "none"

\* The entry handler is handed the pending name.
NewFnPending(fn) == fn

\* queue.py:70: newfn = os.path.join(outpath, os.path.basename(fn))
NewFn(fn) == Join(Lookup("outpath"), Basename(fn))

\* No except clause: what the try block raises leaves process_queue.
ClaimExceptCatchesNothing(raised) == FALSE

\* queue.py:72: a bare except catches whatever the try block raised.
ClaimExceptCatches(raised) == TRUE

\* queue.py:65-74: one turn of the loop up to the claim.
ClaimStep(w) ==
    /\ pc[w] = "loop"
    /\ idx[w] <= Len(fns[w])
    /\ \E ioFault \in BOOLEAN :
        LET fn == fns[w][idx[w]]
            raised == TryClaim(fn, ioFault)
            logged == << Event("log", fn, NoPath, "entry", NoExc, 0) >>
            thrown == Append(logged, Event("raised", fn, NoPath, raised, NoExc, 0))
        IN  IF raised = "none"
            THEN LET to == NewFn(fn)
                     id == Content(fn).id
                 IN  /\ fs' = Rename(fn, to)
                     /\ newfn' = [newfn EXCEPT ![w] = to]
                     /\ cur' = [cur EXCEPT ![w] = id]
                     /\ moved' = [moved EXCEPT ![id] = @ + 1]
                     /\ ev' = [ev EXCEPT ![w] =
                                  Append(logged, Event("rename", fn, to, "none", NoExc, id))]
                     /\ pc' = [pc EXCEPT ![w] = "process"]
                     /\ UNCHANGED << idx, err, faulted >>
            ELSE /\ faulted' = [faulted EXCEPT ![w] = @ \/ raised = "PermissionError"]
                 /\ UNCHANGED << fs, newfn, cur, moved >>
                 /\ IF ClaimExceptCatches(raised)
                    THEN /\ ev' = [ev EXCEPT ![w] = Append(thrown,
                                     Event("log", fn, NoPath, "already processed", NoExc, 0))]
                         /\ idx' = [idx EXCEPT ![w] = @ + 1]
                         /\ UNCHANGED << pc, err >>
                    ELSE /\ ev' = [ev EXCEPT ![w] = thrown]
                         /\ pc' = [pc EXCEPT ![w] = "raised"]
                         /\ err' = [err EXCEPT ![w] = raised]
                         /\ UNCHANGED idx
    /\ UNCHANGED << self, ret, ns, active, clock, nextId, fns, snap, handled >>

\* queue.py:82-86, the override point: what an entry handler may raise on the
\* file it is given ("none": it returns, as the method of Queue itself does).
process_entry(fn) == { "none", "KeyError" }

\* queue.py:79: `except exception:` catches an instance of the class that the
\* name `exception` is bound to.
ExceptCatches(raised) == IsSubclass(raised, Lookup("exception"))

\* queue.py:80: the arguments handle_exception is called with.
HandleExceptionArgs(fn, raised) ==
    [fn |-> fn, exception |-> [cls |-> Lookup("exception"), inst |-> FALSE]]

\* queue.py:88-95, the second override point: what a failure handler may raise
\* ("none": it returns, as the method of Queue itself does).
handle_exception(args) == { "none", "RuntimeError" }

\* queue.py:76-80: the entry handler and, when it raises, the failure handler.
\* The call of line 80 is inside no try block: what the failure handler raises
\* leaves process_queue.
ProcessStep(w) ==
    /\ pc[w] = "process"
    /\ \E raised \in process_entry(newfn[w]) :
       LET fn == fns[w][idx[w]]
           called == Append(ev[w],
                        Event("process_entry", newfn[w], NoPath, raised, NoExc, cur[w]))
       IN  /\ handled' = [handled EXCEPT ![cur[w]] = @ + 1]
           /\ IF raised = "none"
              THEN /\ ev' = [ev EXCEPT ![w] = called]
                   /\ idx' = [idx EXCEPT ![w] = @ + 1]
                   /\ pc' = [pc EXCEPT ![w] = "loop"]
                   /\ UNCHANGED err
              ELSE IF ExceptCatches(raised)
              THEN LET args == HandleExceptionArgs(fn, raised)
                       handed == Append(called,
                                    Event("handle_exception", args.fn, NoPath, raised,
                                          args.exception, cur[w]))
                   IN  \E escaped \in handle_exception(args) :
                         IF escaped = "none"
                         THEN /\ ev' = [ev EXCEPT ![w] = handed]
                              /\ idx' = [idx EXCEPT ![w] = @ + 1]
                              /\ pc' = [pc EXCEPT ![w] = "loop"]
                              /\ UNCHANGED err
                         ELSE /\ ev' = [ev EXCEPT ![w] = Append(handed,
                                          Event("escaped", args.fn, NoPath, escaped, NoExc, cur[w]))]
                              /\ pc' = [pc EXCEPT ![w] = "raised"]
                              /\ err' = [err EXCEPT ![w] = escaped]
                              /\ UNCHANGED idx
              ELSE /\ ev' = [ev EXCEPT ![w] = called]
                   /\ pc' = [pc EXCEPT ![w] = "raised"]
                   /\ err' = [err EXCEPT ![w] = raised]
                   /\ UNCHANGED idx
    /\ UNCHANGED << self, ret, ns, active, clock, fs, nextId, fns, newfn, snap, cur, moved, faulted >>

\* queue.py:65: the loop is over; process_queue returns to listen and its
\* locals are gone.
EndSweep(w) ==
    /\ pc[w] = "loop"
    /\ idx[w] > Len(fns[w])
    /\ pc' = [pc EXCEPT ![w] = "sleep"]
    /\ fns' = [fns EXCEPT ![w] = <<>>]
    /\ idx' = [idx EXCEPT ![w] = 1]
    /\ newfn' = [newfn EXCEPT ![w] = NoPath]
    /\ ev' = [ev EXCEPT ![w] = <<>>]
    /\ snap' = [snap EXCEPT ![w] = <<>>]
    /\ cur' = [cur EXCEPT ![w] = 0]
    /\ faulted' = [faulted EXCEPT ![w] = FALSE]
    /\ UNCHANGED << self, ret, ns, active, clock, fs, nextId, err, handled, moved >>

\* queue.py:35: time.sleep(sleep) is over; the loop of listen starts again.
Sleep(w) ==
    /\ pc[w] = "sleep"
    /\ pc' = [pc EXCEPT ![w] = "idle"]
    /\ UNCHANGED << self, ret, ns, active, clock, fs, nextId, fns, idx, newfn, err, ev,
                    snap, cur, handled, moved, faulted >>

Next ==
    \/ Tick
    \/ Insert
    \/ \E w \in Workers : ListStep(w)
    \/ \E w \in Workers : ClaimStep(w)
    \/ \E w \in Workers : ProcessStep(w)
    \/ \E w \in Workers : EndSweep(w)
    \/ \E w \in Workers : Sleep(w)

Spec == Init /\ [][Next]_vars

\* queue.py:31-35: listen is `while True`, and a worker process that runs keeps
\* taking the steps of its loop: every started worker whose loop has a next
\* step eventually takes it.  A handler call is one step, so it terminates.
WorkerStep(w) ==
    ListStep(w) \/ ClaimStep(w) \/ ProcessStep(w) \/ EndSweep(w) \/ Sleep(w)

FairSpec == Init /\ [][Next]_vars /\ \A w \in Workers : WF_vars(WorkerStep(w))

\* ------------------------------------------------- the names insert generates
\* The wall clock as time.time() has it: seconds and microseconds.
WallTimes == [sec : 0..MaxClock, usec : 0..MaxUsec]
Prefixes == { <<>>, <<112>> }

\* queue.py:44-45: the name of an insert made at wall time t.  time.strftime
\* formats the local time as a struct_time, which holds whole seconds.
NameAt(prefix, t, x) == Join(PATH, EntryName(prefix, t.sec, x, DefaultSuffix, DefaultExt))

\* Two calls of insert, by any producers, the first at t1 and the second not
\* before it: the names they generate.
InsertPair ==
    /\ ret = NoCall
    /\ \E p1 \in Prefixes, p2 \in Prefixes, t1 \in WallTimes, t2 \in WallTimes,
          x1 \in Draws, x2 \in Draws :
          /\ t1.sec < t2.sec \/ (t1.sec = t2.sec /\ t1.usec <= t2.usec)
          /\ ret' = [call |-> "names",
                     a |-> [prefix |-> p1, at |-> t1, x |-> x1, qfn |-> NameAt(p1, t1, x1)],
                     b |-> [prefix |-> p2, at |-> t2, x |-> x2, qfn |-> NameAt(p2, t2, x2)]]
    /\ UNCHANGED << self, ns, active, clock, fs, nextId, pc, fns, idx, newfn, err, ev,
                    snap, cur, handled, moved, faulted >>

SpecNames == Init /\ [][InsertPair]_vars

\* ------------------------------------------------------------ list(pattern)
\* What the two directories may hold when list is called: files, among them one
\* whose name starts with a dot, and subdirectories.
ListedNames == { <<97>>, <<98>>, <<DOT, 97>> }
ListedKinds == { [id |-> 0, text |-> "hello"], [id |-> 0, text |-> SubDir] }
ListedDirs == UNION { [S -> ListedKinds] : S \in SUBSET ListedNames }
Patterns == { <<STAR>>, <<97, STAR>>, <<DOT, STAR>> }

ListInit ==
    /\ self = DictInit(PATH, DefaultOutpath(PATH))
    /\ fs \in [Dirs -> ListedDirs]
    /\ ret = NoCall
    /\ ns \in Namespaces
    /\ active = {}
    /\ clock = 0
    /\ nextId = 1
    /\ pc = [w \in Workers |-> "idle"]
    /\ fns = [w \in Workers |-> <<>>]
    /\ idx = [w \in Workers |-> 1]
    /\ newfn = [w \in Workers |-> NoPath]
    /\ err = [w \in Workers |-> "none"]
    /\ ev = [w \in Workers |-> <<>>]
    /\ snap = [w \in Workers |-> <<>>]
    /\ cur = [w \in Workers |-> 0]
    /\ handled = [i \in Ids |-> 0]
    /\ moved = [i \in Ids |-> 0]
    /\ faulted = [w \in Workers |-> FALSE]

\* A call of list(pattern) and what it returns.
List ==
    /\ ret = NoCall
    /\ \E pattern \in Patterns :
          ret' = [call |-> "list", pattern |-> pattern, l |-> listPattern(pattern)]
    /\ UNCHANGED << self, ns, active, clock, fs, nextId, pc, fns, idx, newfn, err, ev,
                    snap, cur, handled, moved, faulted >>

SpecList == ListInit /\ [][List]_vars

\* ------------------------------------------------------------ construction
\* What the filesystem may hold when a Queue is constructed: each of the two
\* directories is missing or is there, with the files that earlier runs left.
OldNames == { EntryName(DefaultPrefix, 0, x, DefaultSuffix, DefaultExt) : x \in Draws }
OldTexts == { "hello", "bye" }
OldDirs ==
    UNION { [S -> { [id |-> 0, text |-> t] : t \in OldTexts }] : S \in SUBSET OldNames }
OldFilesystems == UNION { [D -> OldDirs] : D \in SUBSET Dirs }

BootInit ==
    /\ self = NoQueue
    /\ fs \in OldFilesystems
    /\ ret = NoCall
    /\ ns \in Namespaces
    /\ active = {}
    /\ clock = 0
    /\ nextId = 1
    /\ pc = [w \in Workers |-> "idle"]
    /\ fns = [w \in Workers |-> <<>>]
    /\ idx = [w \in Workers |-> 1]
    /\ newfn = [w \in Workers |-> NoPath]
    /\ err = [w \in Workers |-> "none"]
    /\ ev = [w \in Workers |-> <<>>]
    /\ snap = [w \in Workers |-> <<>>]
    /\ cur = [w \in Workers |-> 0]
    /\ handled = [i \in Ids |-> 0]
    /\ moved = [i \in Ids |-> 0]
    /\ faulted = [w \in Workers |-> FALSE]

\* The caller's arguments: Queue(PATH), or Queue(PATH, outpath=...) with a
\* directory of the caller's choice.
Boot == \E outpath \in { None, PATH, OUTPATH } : Queue(PATH, outpath)

SpecBoot == BootInit /\ [][Boot]_vars
\* ====================================================================
\* The claims.  An entry is one insert (the number a file carries); the turn
\* of worker w is what ev[w] holds: its latest pass through the loop body.
\* ====================================================================
InDir(dir, i) == \E n \in DOMAIN fs[dir] : fs[dir][n].id = i
Copies(dir, i) == Cardinality({ n \in DOMAIN fs[dir] : fs[dir][n].id = i })
Turn(w, k) == { j \in 1..Len(ev[w]) : ev[w][j].k = k }
TurnFn(w) == ev[w][1].fn
\* the try block of w's turn raised the exception named
Raised(w, what) == \E j \in Turn(w, "raised") : ev[w][j].res = what
\* w's turn is its claim attempt on the name under which it listed entry i
AttemptOn(w, i) ==
    /\ ev[w] # <<>>
    /\ Basename(TurnFn(w)) \in DOMAIN snap[w]
    /\ snap[w][Basename(TurnFn(w))].id = i
Succeeded(w, i) == \E j \in Turn(w, "rename") : ev[w][j].id = i
SnapIds(w) == { snap[w][n].id : n \in DOMAIN snap[w] }
SweepOver(w) == pc[w] = "loop" /\ idx[w] > Len(fns[w])

\* C1 (claim exclusivity): when all the started workers have attempted to claim
\* the same pending entry and no rename met an I/O fault, exactly one attempt
\* succeeded, every other one observed "source does not exist", and exactly one
\* copy of the entry is in the claimed directory (none in the pending one).
C1_ClaimExclusive ==
    \A i \in Ids :
        ( /\ \A w \in active : AttemptOn(w, i)
          /\ \A w \in active : ~Raised(w, "PermissionError") )
        => /\ Cardinality({ w \in active : Succeeded(w, i) }) = 1
           /\ \A w \in active : ~Succeeded(w, i) => Raised(w, "FileNotFoundError")
           /\ Copies(OUTPATH, i) = 1
           /\ ~InDir(PATH, i)

C3_FailureIsolation ==
    \A w \in Workers : \A j \in Turn(w, "process_entry") :
        (ev[w][j].res # "none" /\ Turn(w, "escaped") = {})
        => /\ Cardinality(Turn(w, "handle_exception")) = 1
           /\ \A h \in Turn(w, "handle_exception") :
                /\ ev[w][h].fn = TurnFn(w)
                /\ ev[w][h].exc = [cls |-> ev[w][j].res, inst |-> TRUE]
           /\ pc[w] = "loop"
           /\ err[w] = "none"

\* C4 (single-worker FIFO): with one worker started, the handler is called on
\* the entries of the snapshot in the order of their inserts: when it is called
\* on an entry, it has been called on every entry of the snapshot inserted
\* before it, and at the end of a sweep without I/O faults it has been called
\* on all of them.
C4_SingleWorkerFifo ==
    Cardinality(active) = 1 =>
        \A w \in active :
            /\ \A j \in Turn(w, "process_entry") :
                 \A i \in SnapIds(w) : i < ev[w][j].id => handled[i] = 1
            /\ (SweepOver(w) /\ ~faulted[w]) => \A i \in SnapIds(w) : handled[i] = 1

\* C5 (entry lifecycle): an entry moves to Claimed at most once, and Claimed is
\* terminal: once moved, the entry is in the claimed directory and not in the
\* pending one.
C5_Lifecycle ==
    \A i \in Ids :
        /\ moved[i] <= 1
        /\ moved[i] = 1 => (InDir(OUTPATH, i) /\ ~InDir(PATH, i))

C7_IOErrorEscalated ==
    \A w \in Workers :
        Raised(w, "PermissionError")
        => /\ pc[w] = "raised"
           /\ err[w] = "PermissionError"
           /\ \A j \in Turn(w, "log") : ev[w][j].res # "already processed"

\* C8 (AlreadyClaimed is benign): when the rename of a turn found the source
\* gone, the turn logged it, called neither the entry handler nor the failure
\* handler, the sweep is at the next name of the snapshot, and no error left
\* process_queue.
C8_AlreadyClaimedBenign ==
    \A w \in Workers :
        Raised(w, "FileNotFoundError")
        => /\ Len(ev[w]) = 3
           /\ ev[w][3].k = "log" /\ ev[w][3].res = "already processed"
           /\ ev[w][3].fn = TurnFn(w)
           /\ Turn(w, "process_entry") = {}
           /\ Turn(w, "handle_exception") = {}
           /\ Turn(w, "rename") = {}
           /\ pc[w] = "loop"
           /\ err[w] = "none"
           /\ idx[w] > 1 /\ fns[w][idx[w] - 1] = TurnFn(w)

\* C8 witness: a worker found the source gone because the entry it had listed
\* was moved by a rename of the other worker.
C8_Witness ==
    \E w \in active, i \in Ids :
        /\ AttemptOn(w, i)
        /\ Raised(w, "FileNotFoundError")
        /\ moved[i] = 1
        /\ InDir(OUTPATH, i)

\* C9 (retention): once the entry handler has run for an entry, the entry's
\* file is in the claimed directory and not in the pending one, and the handler
\* is never called for it again.
C9_Retention ==
    \A i \in Ids :
        handled[i] >= 1 => (handled[i] = 1 /\ InDir(OUTPATH, i) /\ ~InDir(PATH, i))

\* C10 (point-in-time snapshot): the names a sweep visits are those of its one
\* listing, and every entry it claims was in the pending directory at that
\* listing: an entry inserted later is not claimed in this sweep.
C10_Snapshot ==
    \A w \in Workers :
        /\ { Basename(fns[w][k]) : k \in 1..Len(fns[w]) } = DOMAIN snap[w]
        /\ ev[w] # <<>> => Basename(TurnFn(w)) \in DOMAIN snap[w]
        /\ \A j \in Turn(w, "rename") : ev[w][j].id \in SnapIds(w)

\* a step of insert: the call returned or raised
InsertStep == nextId' = nextId + 1

C12_NamesDistinct ==
    ret.call = "names" => ret.a.qfn # ret.b.qfn

\* the wall time t is earlier than u, by at least a microsecond
Before(t, u) == t.sec < u.sec \/ (t.sec = u.sec /\ t.usec < u.usec)

\* C18 (name order follows insertion time): of two inserts with the same
\* prefix, the one made at an earlier microsecond has the name that sorts first.
C18_NameOrder ==
    (ret.call = "names" /\ ret.a.prefix = ret.b.prefix /\ Before(ret.a.at, ret.b.at))
    => PathLess(ret.a.qfn, ret.b.qfn)

\* the step of the constructor
QueueStep == self = NoQueue /\ self' # NoQueue

\* C13 (idempotent directory bootstrap): constructing a Queue leaves every
\* directory that was there with the files and contents it had, and adds
\* nothing but the missing ones among self.path and self.outpath, empty.
C13_BootstrapIdempotent ==
    [][ QueueStep =>
          /\ \A d \in DOMAIN fs : d \in DOMAIN fs' /\ fs'[d] = fs[d]
          /\ DOMAIN fs' = (DOMAIN fs) \cup { self'.path, self'.outpath }
          /\ \A d \in (DOMAIN fs') \ (DOMAIN fs) : fs'[d] = <<>> ]_vars

\* C13 witness: a Queue was constructed on two directories that hold files.
C13_Witness ==
    /\ self = [path |-> PATH, outpath |-> OUTPATH]
    /\ fs[PATH] # <<>>
    /\ fs[OUTPATH] # <<>>

\* C16 (queue invariant): the pending and the claimed directory of a
\* constructed Queue are two different directories, and both exist.
C16_DistinctDirectories ==
    self # NoQueue
    => /\ self.path # self.outpath
       /\ self.path \in DOMAIN fs
       /\ self.outpath \in DOMAIN fs

\* the entry handler raised in w's turn and the failure handler did not
HandlerFailed(w) ==
    /\ \E j \in Turn(w, "process_entry") : ev[w][j].res # "none"
    /\ Turn(w, "escaped") = {}

\* C14 (scheduler loop): the loop of listen has no exit; a failure of one entry,
\* the source of a rename being gone or the entry handler raising, does not end
\* it: no such error leaves process_queue, so the loop goes on to its sleep
\* and its next sweep.
C14_LoopSurvivesEntryFailures ==
    \A w \in Workers :
        /\ pc[w] \in { "idle", "loop", "process", "sleep", "raised" }
        /\ (HandlerFailed(w) \/ Raised(w, "FileNotFoundError"))
             => (pc[w] # "raised" /\ err[w] = "none")

\* C15 (payload round trip): the entry handler is called with a path of the
\* claimed directory whose file holds the payload the entry was inserted with,
\* and at the end of a sweep without I/O faults every entry of its listing is in
\* the claimed directory under the base name it had, with that payload, and,
\* where this worker is the only one, was handed to the entry handler.
C15_PayloadRoundTrip ==
    \A w \in active :
        /\ pc[w] = "process"
             => /\ newfn[w].dir = OUTPATH
                /\ Exists(newfn[w])
                /\ Content(newfn[w]) = snap[w][Basename(newfn[w])]
        /\ (SweepOver(w) /\ ~faulted[w])
             => \A n \in DOMAIN snap[w] :
                    /\ n \notin DOMAIN fs[PATH]
                    /\ n \in DOMAIN fs[OUTPATH]
                    /\ fs[OUTPATH][n].text = snap[w][n].text
                    /\ Cardinality(active) = 1 => handled[fs[OUTPATH][n].id] = 1

C19_ListExact ==
    ret.call = "list" =>
        /\ { ret.l[k] : k \in 1..Len(ret.l) }
             = { Join(PATH, n) : n \in { m \in DOMAIN fs[PATH] :
                     fs[PATH][m].text # SubDir /\ FnMatch(ret.pattern, m) } }
        /\ \A k \in 1..Len(ret.l) : ret.l[k].dir = PATH /\ ret.l[k].dir # OUTPATH
        /\ \A j \in 1..Len(ret.l), k \in 1..Len(ret.l) : j < k => PathLess(ret.l[j], ret.l[k])

\* C20 (propagation policy): an error of the claim other than the source being
\* gone, and an error raised by the failure handler itself, is not recovered:
\* it leaves process_queue, the sweep ends at that entry, having renamed no
\* later entry of its listing, and the loop of listen ends with it.
C20_PropagationPolicy ==
    \A w \in Workers :
        /\ \A j \in Turn(w, "raised") :
               ev[w][j].res # "FileNotFoundError"
               => (pc[w] = "raised" /\ err[w] = ev[w][j].res)
        /\ \A j \in Turn(w, "escaped") :
               pc[w] = "raised" /\ err[w] = ev[w][j].res
        /\ pc[w] = "raised"
             => /\ idx[w] <= Len(fns[w])
                /\ TurnFn(w) = fns[w][idx[w]]
                /\ \A j \in Turn(w, "rename") : ev[w][j].fn = fns[w][idx[w]]

\* C21 (eventual processing): while the started workers keep running their
\* loops, an entry that is in the pending directory is eventually moved to the
\* claimed directory and handed to the entry handler, unless every started
\* worker was ended by an error or the operating system refuses a rename.
C21_EventualProcessing ==
    \A i \in Ids :
        InDir(PATH, i)
        ~> \/ (moved[i] >= 1 /\ handled[i] >= 1)
           \/ \A w \in active : pc[w] = "raised"
           \/ \E w \in active : faulted[w]

\* the files of entry i in the two directories together
Total(i) == Copies(PATH, i) + Copies(OUTPATH, i)

\* C22 (conservation of entries): an insert that returns adds its entry, once,
\* and no other step changes how many files an entry has in the two directories
\* together, so an inserted entry stays in exactly one of them; no step removes
\* or replaces a file of the claimed directory.
C22_Conservation ==
    [][ /\ \A i \in Ids :
             Total(i)' = IF InsertStep /\ i = nextId /\ ret'.raised = "none"
                         THEN 1 ELSE Total(i)
        /\ \A i \in Ids : Total(i) <= 1
        /\ \A n \in DOMAIN fs[OUTPATH] :
             n \in DOMAIN fs'[OUTPATH] /\ fs'[OUTPATH][n] = fs[OUTPATH][n] ]_vars

\* C24 (sweep termination): a sweep visits the names of its listing in
\* ascending order, each once, whatever other processes insert or claim
\* meanwhile; it ends only when it has attempted the claim of every one of them,
\* unless the failure handler itself raised; and a sweep whose listing is empty
\* claims and handles nothing.
C24_SweepVisitsAll ==
    \A w \in Workers :
        /\ \A j \in 1..Len(fns[w]), k \in 1..Len(fns[w]) :
               j < k => PathLess(fns[w][j], fns[w][k])
        /\ idx[w] \in 1..(Len(fns[w]) + 1)
        /\ ev[w] # <<>> =>
               TurnFn(w) = fns[w][IF pc[w] \in { "process", "raised" }
                                  THEN idx[w] ELSE idx[w] - 1]
        /\ (pc[w] = "raised" /\ Turn(w, "escaped") = {}) => idx[w] = Len(fns[w])
        /\ fns[w] = <<>> => (ev[w] = <<>> /\ cur[w] = 0 /\ pc[w] # "process")
====
